---- MODULE Spec2Model ----
(***************************************************************************)
(* Layered network-header decoding as the repository's C code performs it: *)
(*   - parse_complete_packet   (Ethernet -> IPv4 -> TCP/UDP/ESP, a buffer)  *)
(*   - analyze_ipsec_packet    (ESP SPI / sequence number of a buffer)      *)
(*   - analyze_macsec_packet   (MACsec packet number of a buffer)           *)
(*   - main / parse_ipv4_header (IPv4 -> TCP/UDP, read from a file)         *)
(*   - packet_parser, pp_create, pp_read (bounds-checked read cursor)       *)
(*   - extract_field, set_field and the nibble getters (bit fields)        *)
(*   - ring_buffer_write / ring_buffer_read, track_ipsec_packet /          *)
(*     detect_losses, pool_get_buffer / pool_return_buffer                 *)
(* A buffer is a sequence of bytes; byte i of the C buffer is packet[i+1].  *)
(***************************************************************************)
EXTENDS Integers, Sequences, FiniteSets, TLC

VARIABLES
    host,        \* byte order of the machine running the code: "LE" or "BE"
    routine,     \* the function the caller invokes on the buffer
    packet,      \* unsigned char *packet / the bytes of the opened file
    packet_len,  \* int packet_len / long file_size
    pc,          \* position of the running pass
    offset,      \* int offset (parse_complete_packet) / ftell(file)
    headers,     \* the headers printed so far, in order
    msg,         \* the diagnostic printed when the pass stops, "" if none
    hiRead,      \* highest buffer index read so far, -1 if none
    payload_len, \* "Remaining bytes" printed by parse_ipv4_header, -1 if none
    last_spi,    \* static unsigned int last_spi   (analyze_ipsec_packet)
    last_seq,    \* static unsigned int last_seq   (analyze_ipsec_packet)
    last_pkt_num,\* static unsigned short last_pkt_num (analyze_macsec_packet)
    lost,        \* the "PACKET LOSS: %u" value printed by the last call, <<>> if none
    obs,         \* history: the flow key and counter of each frame handed to the analyzer
    pp,          \* packet_parser: [length, offset]
    pp_result,   \* what the last pp_read returned: NULL, or the offset of the slice
    pp_prev,     \* pp.offset before the last pp_read
    pp_n,        \* bytes_to_read of the last pp_read, -1 before the first
    th,          \* concurrent calls of analyze_ipsec_packet: position and locals of each
    bf,          \* the bit-field helper being called: its arguments and what it returned
    rb,          \* struct ring_buffer: capacity, indices, count and the slots
    rb_log,      \* history: the packets of the successful writes and reads, in order
    seen_packets,\* struct ipsec_packet *seen_packets, head first
    loss_log,    \* the "Expected: %u, Got: %u" pairs printed by the last detect_losses
    pool,        \* struct packet_pool: available_count and available_indices
    held         \* history: the buffers handed to callers and not yet returned by them

decodeVars == <<pc, offset, headers, msg, hiRead, payload_len>>
trackVars  == <<last_spi, last_seq, last_pkt_num, lost, obs>>
readerVars == <<pp, pp_result, pp_prev, pp_n>>
inputVars  == <<host, routine, packet, packet_len>>
concVars   == <<th>>
bitVars    == <<bf>>
ringVars   == <<rb, rb_log>>
lossVars   == <<seen_packets, loss_log>>
poolVars   == <<pool, held>>
auxVars    == <<concVars, bitVars, ringVars, lossVars, poolVars>>
coreVars   == <<inputVars, decodeVars, trackVars, readerVars>>
vars == <<inputVars, decodeVars, trackVars, readerVars, auxVars>>

\* the parts of the program a specification does not exercise stay idle
ConcIdle == th = <<>>

BitIdle  == bf = <<>>

RingIdle == rb = <<>> /\ rb_log = <<>>

LossIdle == seen_packets = <<>> /\ loss_log = <<>>

PoolIdle == pool = <<>> /\ held = {}

AuxIdle == ConcIdle /\ BitIdle /\ RingIdle /\ LossIdle /\ PoolIdle

(***************************************************************************)
(* Bounds of the model                                                     *)
(***************************************************************************)
MaxFrameLen == 95      \* buffers of 0..MaxFrameLen bytes
MaxFileLen  == 61      \* files of 0..MaxFileLen bytes
MaxPpLen    == 41      \* packet_parser over buffers of 0..MaxPpLen bytes

(***************************************************************************)
(* Program constants                                                       *)
(***************************************************************************)
ETH_TYPE_IPv4   == 2048     \* 0x0800
ETH_TYPE_ARP    == 2054     \* 0x0806
ETH_TYPE_IPv6   == 34525    \* 0x86DD
ETH_TYPE_MACSEC == 35045    \* 0x88E5
ETH_TYPE_VLAN   == 33024    \* 0x8100
PROTO_ICMP      == 1
PROTO_TCP       == 6
PROTO_UDP       == 17
PROTO_IPsec_ESP == 50
PROTO_IPv6      == 41
TCP_SYN         == 2
TCP_ACK         == 16
TCP_FIN         == 1
SizeofEthernet  == 14       \* sizeof(struct ethernet_frame)
SizeofIPv4      == 20       \* sizeof(struct ipv4_header), sizeof(IPv4Header)
SizeofTcp       == 20       \* sizeof(struct tcp_header), sizeof(TCPHeader)
SizeofUdp       == 8        \* sizeof(struct udp_header), sizeof(UDPHeader)
SizeofEsp       == 8        \* sizeof(struct ipsec_esp_header)
SizeofMacsec    == 4        \* sizeof(struct macsec_header)
SizeofArp       == 28       \* sizeof(struct arp_header)

EtherTypes == {ETH_TYPE_IPv4, ETH_TYPE_ARP, ETH_TYPE_IPv6, ETH_TYPE_MACSEC, ETH_TYPE_VLAN}
Protocols  == {PROTO_ICMP, PROTO_TCP, PROTO_UDP, PROTO_IPsec_ESP, PROTO_IPv6}
IHLs       == {4, 5, 6, 15}
Hosts      == {"LE", "BE"}
\* an out-of-bounds read returns whatever lies behind the buffer
GarbageBytes == {0, 255}

Max(a, b) == IF a >= b THEN a ELSE b

(***************************************************************************)
(* Byte order: a multi-byte field is loaded from memory in the host's      *)
(* order and then passed through ntohs / ntohl.                            *)
(***************************************************************************)
Load16(h, b0, b1) == IF h = "LE" THEN b0 + 256 * b1 ELSE 256 * b0 + b1

\* A 32-bit unsigned value is the pair <<high 16 bits, low 16 bits>>.
U32(n) == <<n \div 65536, n % 65536>>

Load32(h, b0, b1, b2, b3) ==
    IF h = "LE" THEN <<b2 + 256 * b3, b0 + 256 * b1>>
                ELSE <<256 * b0 + b1, 256 * b2 + b3>>

Swap16(v) == (v % 256) * 256 + (v \div 256)

Swap32(v) == <<Swap16(v[2]), Swap16(v[1])>>

\* a - b and a + 1 in unsigned 32-bit arithmetic
U32Sub(a, b) ==
    LET borrow == IF a[2] < b[2] THEN 1 ELSE 0
    IN  <<(a[1] - b[1] - borrow) % 65536, (a[2] - b[2]) % 65536>>

U32Succ(a) == IF a[2] = 65535 THEN <<(a[1] + 1) % 65536, 0>> ELSE <<a[1], a[2] + 1>>

\* an int in -65536..65535 converted to unsigned int
U32OfInt(d) == IF d < 0 THEN <<65535, 65536 + d>> ELSE <<0, d>>

\* ntohs leaving the bytes as they lie in memory
ntohs_Identity(h, v) == v

ntohs(h, v) == IF h = "LE" THEN Swap16(v) ELSE v

ntohl(h, v) == IF h = "LE" THEN Swap32(v) ELSE v

(***************************************************************************)
(* Bit helpers of the decoders                                             *)
(***************************************************************************)
get_ihl(version_ihl) == version_ihl % 16

get_version(version_ihl) == (version_ihl \div 16) % 16

tcp_get_header_length(data_offset_reserved) == ((data_offset_reserved \div 16) % 16) * 4

HasFlag(flags, bit) == (flags \div bit) % 2 = 1

(***************************************************************************)
(* Input buffers.  FrameByte(i, ...) is byte i of an Ethernet frame with    *)
(* the given ethertype, IHL nibble and IPv4 protocol; the transport header *)
(* is laid out where the IHL says it starts.                               *)
(***************************************************************************)
TransportByte(k, proto) ==
    CASE proto = PROTO_TCP /\ k = 0  -> 212      \* source port 54321
      [] proto = PROTO_TCP /\ k = 1  -> 49
      [] proto = PROTO_TCP /\ k = 3  -> 80       \* destination port 80
      [] proto = PROTO_TCP /\ k = 12 -> 80       \* data offset 5
      [] proto = PROTO_TCP /\ k = 13 -> 18       \* SYN | ACK
      [] proto = PROTO_UDP /\ k = 1  -> 53
      [] proto = PROTO_UDP /\ k = 3  -> 53
      [] proto = PROTO_UDP /\ k = 5  -> 20
      [] proto = PROTO_IPsec_ESP /\ k = 3 -> 1   \* SPI 1
      [] proto = PROTO_IPsec_ESP /\ k = 7 -> 7   \* sequence number 7
      [] OTHER -> 0

IPv4Byte(k, ihl, proto) ==
    CASE k = 0  -> 64 + ihl                      \* version 4, IHL
      [] k = 3  -> 60                            \* total length
      [] k = 8  -> 64                            \* TTL
      [] k = 9  -> proto
      [] k = 12 -> 192
      [] k = 13 -> 168
      [] k = 14 -> 1
      [] k = 15 -> 100                           \* source 192.168.1.100
      [] k = 16 -> 10
      [] k = 19 -> 50                            \* destination 10.0.0.50
      [] k >= SizeofIPv4 /\ k >= ihl * 4 -> TransportByte(k - ihl * 4, proto)
      [] OTHER -> 0

FrameByte(i, et, ihl, proto) ==
    CASE i = 6  -> 170                           \* source MAC aa:..
      [] i = 12 -> et \div 256
      [] i = 13 -> et % 256
      [] i >= SizeofEthernet /\ et = ETH_TYPE_MACSEC ->
            (IF i = 17 THEN 9 ELSE 0)            \* MACsec packet number 9
      [] i >= SizeofEthernet /\ et # ETH_TYPE_MACSEC ->
            IPv4Byte(i - SizeofEthernet, ihl, proto)
      [] OTHER -> 0

MakeFrame(len, et, ihl, proto) == [i \in 1..len |-> FrameByte(i - 1, et, ihl, proto)]

MakeFile(len, ihl, proto) == [i \in 1..len |-> IPv4Byte(i - 1, ihl, proto)]

(***************************************************************************)
(* The sample files of the packet generator, byte for byte.  A field set   *)
(* with htons / htonl is converted and then stored in the host's order.    *)
(***************************************************************************)
htons(h, v) == IF h = "LE" THEN Swap16(v) ELSE v

htonl(h, v) == IF h = "LE" THEN Swap32(v) ELSE v

\* the bytes an unsigned short / unsigned int occupies in the host's memory
Store16(h, v) ==
    IF h = "LE" THEN <<v % 256, v \div 256>> ELSE <<v \div 256, v % 256>>

Store32(h, v) ==
    IF h = "LE" THEN Store16(h, v[2]) \o Store16(h, v[1])
                ELSE Store16(h, v[1]) \o Store16(h, v[2])

\* .field = htons(v) and .field = htonl(v)
Net16(h, v) == Store16(h, htons(h, v))

Net32(h, v) == Store32(h, htonl(h, v))

\* inet_addr("a.b.c.d"): the address in network byte order
inet_addr(a, b, c, d) == <<a, b, c, d>>

\* for (i = 0; i < len / 2; i++) sum += data[i];
RECURSIVE SumWords(_, _, _)
SumWords(h, data, n) ==
    IF n = 0 THEN 0
    ELSE Load16(h, data[2 * n - 1], data[2 * n]) + SumWords(h, data, n - 1)

\* while (sum >> 16) sum = (sum & 0xFFFF) + (sum >> 16);
RECURSIVE Fold16(_)
Fold16(sum) ==
    IF sum \div 65536 = 0 THEN sum ELSE Fold16((sum % 65536) + (sum \div 65536))

\* unsigned short calculate_checksum(unsigned short *data, int len): return ~sum
calculate_checksum(h, data, len) == 65535 - Fold16(SumWords(h, data, len \div 2))

\* IPv4Header ip = { ... }; ip.header_checksum = calculate_checksum(&ip, 20);
IPv4HeaderBytes(h, total_length, identification, protocol, source_ip, dest_ip) ==
    LET ip == <<64 + 5, 0>> \o Net16(h, total_length) \o Net16(h, identification)
              \o Net16(h, 16384) \o <<64, protocol>> \o <<0, 0>>
              \o source_ip \o dest_ip
        ck == Store16(h, calculate_checksum(h, ip, SizeofIPv4))
    IN  [ip EXCEPT ![11] = ck[1], ![12] = ck[2]]

\* the 60 bytes create_ipv4_tcp_packet writes: IPv4 + TCP + "Hello World!\n"
create_ipv4_tcp_packet(h) ==
    IPv4HeaderBytes(h, 60, 4660, PROTO_TCP,
                    inet_addr(192, 168, 1, 100), inet_addr(10, 0, 0, 50))
    \o Net16(h, 54321) \o Net16(h, 80)
    \o Net32(h, <<4660, 22136>>) \o Net32(h, <<34661, 17185>>)
    \o <<5 * 16, TCP_SYN + TCP_ACK>> \o Net16(h, 32768) \o <<0, 0>> \o <<0, 0>>
    \o <<72, 101, 108, 108, 111, 32, 87, 111, 114, 108, 100, 33, 10,
         0, 0, 0, 0, 0, 0, 0>>

\* the 40 bytes create_ipv4_udp_packet writes: IPv4 + UDP + "DNS Query"
create_ipv4_udp_packet(h) ==
    IPv4HeaderBytes(h, 40, 22136, PROTO_UDP,
                    inet_addr(192, 168, 1, 50), inet_addr(8, 8, 8, 8))
    \o Net16(h, 53) \o Net16(h, 53) \o Net16(h, 20) \o <<0, 0>>
    \o <<68, 78, 83, 32, 81, 117, 101, 114, 121, 0, 0, 0>>

SampleFiles(h) == {create_ipv4_tcp_packet(h), create_ipv4_udp_packet(h)}

(***************************************************************************)
(* Buffer access                                                           *)
(***************************************************************************)
InBounds(i) == 0 <= i /\ i < Len(packet)

\* packet[i]; a read outside the buffer yields the garbage g behind it
Rd(i, g) == IF InBounds(i) THEN packet[i + 1] ELSE g

\* ntohs(field) and ntohl(field) of the field that starts at byte i
Rd16(i, g) == ntohs(host, Load16(host, Rd(i, g), Rd(i + 1, g)))

Rd32(i, g) == ntohl(host, Load32(host, Rd(i, g), Rd(i + 1, g), Rd(i + 2, g), Rd(i + 3, g)))

\* the four bytes of a struct in_addr, in memory order
RdAddr(i, g) == <<Rd(i, g), Rd(i + 1, g), Rd(i + 2, g), Rd(i + 3, g)>>

Header(kind, at, fields) == [kind |-> kind, at |-> at, fields |-> fields]


(***************************************************************************)
(* What the diagnostics mean to a caller: the diagnostic a pass prints     *)
(* when it stops early is the error it reports.                            *)
(***************************************************************************)
TruncatedMsgs == {"Packet too short for Ethernet", "Packet too short for IPv4",
                  "Packet too short for TCP", "Packet too short for UDP",
                  "Packet too short for IPsec ESP", "File too small",
                  "Could not read IPv4 header", "Could not read TCP header",
                  "Could not read UDP header"}

UnsupportedMsgs == {"Not IPv4", "Not an IPsec ESP packet", "Not a MACsec packet"}

ErrorKind(m) ==
    CASE m = ""               -> "None"
      [] m \in TruncatedMsgs   -> "Truncated"
      [] m \in UnsupportedMsgs -> "UnsupportedProtocol"
      [] OTHER                 -> "InvalidLength"

err == ErrorKind(msg)

Kinds(hs) == [i \in 1..Len(hs) |-> hs[i].kind]

(***************************************************************************)
(* The conditions parse_complete_packet branches on                        *)
(***************************************************************************)
\* the length check with the bound one too far
TooShort_OffByOne(off, size, len) == off + size > len + 1

\* if (offset + sizeof(struct X) > packet_len)
TooShort(off, size, len) == off + size > len

\* the ethertype test letting ARP frames through
IsIPv4_OrArp(ethertype) == ethertype \in {ETH_TYPE_IPv4, ETH_TYPE_ARP}

\* the ethertype test letting IPv6 frames through
IsIPv4_OrIPv6(ethertype) == ethertype \in {ETH_TYPE_IPv4, ETH_TYPE_IPv6}

\* if (ethertype != 0x0800) { printf("Not IPv4\n"); return; }
IsIPv4(ethertype) == ethertype = ETH_TYPE_IPv4

\* int ip_header_len = (ip->version_ihl & 0x0F) * 4;
IpHeaderLen(version_ihl) == get_ihl(version_ihl) * 4

\* the chain without its ESP branch
TransportKind_NoEsp(protocol) ==
    CASE protocol = PROTO_TCP -> "TCP"
      [] protocol = PROTO_UDP -> "UDP"
      [] OTHER                -> "None"

\* the if / else if chain on ip->protocol
TransportKind(protocol) ==
    CASE protocol = PROTO_TCP       -> "TCP"
      [] protocol = PROTO_UDP       -> "UDP"
      [] protocol = PROTO_IPsec_ESP -> "ESP"
      [] OTHER                      -> "None"

TransportSize(kind) ==
    CASE kind = "TCP" -> SizeofTcp
      [] kind = "UDP" -> SizeofUdp
      [] kind = "ESP" -> SizeofEsp
      [] OTHER        -> 0

TooShortMsg(kind) ==
    CASE kind = "TCP" -> "Packet too short for TCP"
      [] kind = "UDP" -> "Packet too short for UDP"
      [] OTHER        -> "Packet too short for IPsec ESP"

\* the fields each branch prints, and the last byte it touches
TransportFields(kind, at, g) ==
    CASE kind = "TCP" -> <<Rd16(at, g), Rd16(at + 2, g), Rd(at + 13, g)>>
      [] kind = "UDP" -> <<Rd16(at, g), Rd16(at + 2, g)>>
      [] OTHER        -> <<Rd32(at, g), Rd32(at + 4, g)>>

\* the fields printed from struct ipv4_header at byte `at`; inet_ntoa prints
\* the four bytes of the address in memory order
IPv4Fields(at, g) ==
    <<Rd(at, g), Rd(at + 9, g), Rd(at + 8, g), RdAddr(at + 12, g), RdAddr(at + 16, g)>>

\* void format_ip_address(unsigned int ip_bytes, char *buffer, size_t buffer_size):
\* host_ip = ntohl(ip_bytes); bytes = (unsigned char *)&host_ip; the four
\* numbers printed are bytes[0], bytes[1], bytes[2], bytes[3]
format_ip_address(h, ip_bytes) == Store32(h, ntohl(h, ip_bytes))

\* the unsigned int field that starts at byte i, as loaded by the host
RdWord(i, g) == Load32(host, Rd(i, g), Rd(i + 1, g), Rd(i + 2, g), Rd(i + 3, g))

\* the fields parse_ipv4_header prints from IPv4Header at byte `at`
FileIPv4Fields(at, g) ==
    <<Rd(at, g), Rd(at + 9, g), Rd(at + 8, g),
      format_ip_address(host, RdWord(at + 12, g)),
      format_ip_address(host, RdWord(at + 16, g))>>

TransportLastRead(kind, at) ==
    CASE kind = "TCP" -> at + 13
      [] kind = "UDP" -> at + 3
      [] OTHER        -> at + 7

\* an early return that throws away what was decoded
Stop_DroppingHeaders(m) ==
    /\ msg' = m
    /\ pc' = "Failed"
    /\ headers' = <<>>
    /\ UNCHANGED <<offset, hiRead, payload_len>>

\* the diagnostic printed without leaving the pass
Stop_WithoutReturn(m) ==
    /\ msg' = m
    /\ UNCHANGED <<pc, offset, headers, hiRead, payload_len>>

\* printf(diagnostic); return;
Stop(m) ==
    /\ msg' = m
    /\ pc' = "Failed"
    /\ UNCHANGED <<offset, headers, hiRead, payload_len>>

(***************************************************************************)
(* parse_complete_packet, one action per layer                             *)
(***************************************************************************)
\* Layer 2: Ethernet
PcpLinkLayer ==
    /\ routine = "parse_complete_packet"
    /\ pc = "LinkLayer"
    /\ \E g \in GarbageBytes :
       IF TooShort(offset, SizeofEthernet, packet_len)
       THEN Stop("Packet too short for Ethernet")
       ELSE /\ headers' = Append(headers,
                    Header("Ethernet", offset, <<Rd16(offset + 12, g)>>))
            /\ hiRead' = Max(hiRead, offset + 13)
            /\ offset' = offset + SizeofEthernet
            /\ pc' = "NetworkLayer"
            /\ UNCHANGED <<msg, payload_len>>
    /\ UNCHANGED <<inputVars, trackVars, readerVars, auxVars>>

\* Layer 3: IPv4
PcpNetworkLayer ==
    /\ routine = "parse_complete_packet"
    /\ pc = "NetworkLayer"
    /\ \E g \in GarbageBytes :
       LET ethertype == headers[1].fields[1] IN
       IF ~IsIPv4(ethertype)
       THEN Stop("Not IPv4")
       ELSE IF TooShort(offset, SizeofIPv4, packet_len)
       THEN Stop("Packet too short for IPv4")
       ELSE /\ headers' = Append(headers, Header("IPv4", offset, IPv4Fields(offset, g)))
            /\ hiRead' = Max(hiRead, offset + 19)
            /\ offset' = offset + IpHeaderLen(Rd(offset, g))
            /\ pc' = "TransportOrSecurityLayer"
            /\ UNCHANGED <<msg, payload_len>>
    /\ UNCHANGED <<inputVars, trackVars, readerVars, auxVars>>

\* Layer 4: depends on ip->protocol
PcpTransportLayer ==
    /\ routine = "parse_complete_packet"
    /\ pc = "TransportOrSecurityLayer"
    /\ \E g \in GarbageBytes :
       LET ip   == headers[2].at
           kind == TransportKind(Rd(ip + 9, g))
       IN
       IF kind = "None"
       THEN /\ pc' = "Done"
            /\ UNCHANGED <<offset, headers, msg, hiRead, payload_len>>
       ELSE IF TooShort(offset, TransportSize(kind), packet_len)
       THEN Stop(TooShortMsg(kind))
       ELSE /\ headers' = Append(headers,
                    Header(kind, offset, TransportFields(kind, offset, g)))
            /\ hiRead' = Max(hiRead, TransportLastRead(kind, offset))
            /\ pc' = "Done"
            /\ UNCHANGED <<offset, msg, payload_len>>
    /\ UNCHANGED <<inputVars, trackVars, readerVars, auxVars>>


(***************************************************************************)
(* main and parse_ipv4_header: the same decoding from a file that starts   *)
(* with the IPv4 header.  offset is the file position, fread advances it   *)
(* by what it could read.                                                  *)
(***************************************************************************)
\* if (file_size < (long)sizeof(IPv4Header))
FileTooSmall(file_size) == file_size < SizeofIPv4

\* fread(&hdr, size, 1, file) != 1
FreadFails(pos, size, file_size) == file_size - pos < size

\* the if / else if / else on ip_header.protocol
FileTransportKind(protocol) ==
    CASE protocol = PROTO_TCP -> "TCP"
      [] protocol = PROTO_UDP -> "UDP"
      [] OTHER                -> "None"

\* const char* get_protocol_name(unsigned char protocol)
get_protocol_name(protocol) ==
    CASE protocol = PROTO_ICMP -> "ICMP"
      [] protocol = PROTO_TCP  -> "TCP"
      [] protocol = PROTO_UDP  -> "UDP"
      [] OTHER                 -> "Unknown"

\* the data offset taken from the low nibble
get_tcp_data_offset_LowNibble(data_offset) == data_offset % 16

\* unsigned char get_ip_version(unsigned char version_ihl)
get_ip_version(version_ihl) == (version_ihl \div 16) % 16

\* unsigned char get_tcp_data_offset(unsigned char data_offset)
get_tcp_data_offset(data_offset) == (data_offset \div 16) % 16

\* the UDP length taken from the checksum field
FileFields_LengthFromChecksum(kind, at, g) ==
    IF kind = "TCP"
    THEN <<Rd16(at, g), Rd16(at + 2, g), Rd(at + 13, g), get_tcp_data_offset(Rd(at + 12, g))>>
    ELSE <<Rd16(at, g), Rd16(at + 2, g), Rd16(at + 6, g)>>

\* the TCP / UDP fields parse_ipv4_header prints
FileFields(kind, at, g) ==
    IF kind = "TCP"
    THEN <<Rd16(at, g), Rd16(at + 2, g), Rd(at + 13, g), get_tcp_data_offset(Rd(at + 12, g))>>
    ELSE <<Rd16(at, g), Rd16(at + 2, g), Rd16(at + 4, g)>>

FreadStop(m) ==
    /\ msg' = m
    /\ pc' = "Failed"
    /\ offset' = packet_len
    /\ hiRead' = Max(hiRead, packet_len - 1)
    /\ UNCHANGED <<headers, payload_len>>

FileNetworkLayer ==
    /\ routine = "main"
    /\ pc = "NetworkLayer"
    /\ \E g \in GarbageBytes :
       IF FileTooSmall(packet_len)
       THEN Stop("File too small")
       ELSE IF FreadFails(offset, SizeofIPv4, packet_len)
       THEN FreadStop("Could not read IPv4 header")
       ELSE /\ headers' = Append(headers, Header("IPv4", offset, FileIPv4Fields(offset, g)))
            /\ hiRead' = Max(hiRead, offset + SizeofIPv4 - 1)
            /\ offset' = offset + SizeofIPv4
            /\ pc' = "TransportOrSecurityLayer"
            /\ UNCHANGED <<msg, payload_len>>
    /\ UNCHANGED <<inputVars, trackVars, readerVars, auxVars>>

FileTransportLayer ==
    /\ routine = "main"
    /\ pc = "TransportOrSecurityLayer"
    /\ \E g \in GarbageBytes :
       LET kind == FileTransportKind(headers[1].fields[2])
           size == IF kind = "TCP" THEN SizeofTcp ELSE SizeofUdp
       IN
       IF kind = "None"
       THEN /\ payload_len' = packet_len - offset
            /\ pc' = "Done"
            /\ UNCHANGED <<offset, headers, msg, hiRead>>
       ELSE IF FreadFails(offset, size, packet_len)
       THEN FreadStop(IF kind = "TCP" THEN "Could not read TCP header"
                                      ELSE "Could not read UDP header")
       ELSE /\ headers' = Append(headers, Header(kind, offset, FileFields(kind, offset, g)))
            /\ hiRead' = Max(hiRead, offset + size - 1)
            /\ offset' = offset + size
            /\ payload_len' = packet_len - (offset + size)
            /\ pc' = "Done"
            /\ UNCHANGED msg
    /\ UNCHANGED <<inputVars, trackVars, readerVars, auxVars>>

(***************************************************************************)
(* analyze_ipsec_packet and analyze_macsec_packet: each is one call that   *)
(* casts the buffer and updates its function-local static state.  A byte   *)
(* read outside the buffer yields garbage g.                               *)
(***************************************************************************)
\* unsigned int lost = seq - last_seq - 1;
EspLost(seq, last) == U32Sub(U32Sub(seq, last), U32(1))

\* if (seq != last_seq + 1), in unsigned int arithmetic
EspContiguous(seq, last) == seq = U32Succ(last)

\* unsigned int lost = pkt_num - last_pkt_num - 1; computed in int, then converted
MacsecLost(pkt_num, last) == U32OfInt(pkt_num - last - 1)

\* the successor taken as an unsigned short
MacsecContiguous_Wrap16(pkt_num, last) == pkt_num = (last + 1) % 65536

\* if (pkt_num != last_pkt_num + 1), both promoted to int
MacsecContiguous(pkt_num, last) == pkt_num = last + 1

\* the update skipped while a loss was reported
Remember_UnlessGap(last, value, report) == IF report = <<>> THEN value ELSE last

\* last_spi = spi; last_seq = seq; last_pkt_num = pkt_num; after the if
Remember(last, value, report) == value

\* a read outside the buffer is undefined: besides yielding garbage it can
\* end the process with a memory fault, before anything is printed or stored
Fault(last) ==
    /\ ~InBounds(last)
    /\ pc' = "Aborted"
    /\ hiRead' = Max(hiRead, last)
    /\ UNCHANGED <<offset, headers, msg, payload_len, trackVars>>

analyze_ipsec_packet ==
    /\ routine = "analyze_ipsec_packet"
    /\ pc = "Entry"
    /\ \E g \in GarbageBytes, fault \in BOOLEAN :
         LET ptr           == SizeofEthernet
             ip_header_len == IpHeaderLen(Rd(ptr, g))
             protocol      == Rd(ptr + 9, g)
             esp           == ptr + ip_header_len
             spi           == Rd32(esp, g)
             seq           == Rd32(esp + 4, g)
             last          == IF protocol # PROTO_IPsec_ESP THEN ptr + 9 ELSE esp + 7
         IN
         IF fault
         THEN Fault(last)
         ELSE
         IF protocol # PROTO_IPsec_ESP
         THEN /\ msg' = "Not an IPsec ESP packet"
              /\ pc' = "Failed"
              /\ hiRead' = Max(hiRead, ptr + 9)
              /\ UNCHANGED <<offset, headers, payload_len, trackVars>>
         ELSE /\ headers' = Append(headers, Header("ESP", esp, <<spi, seq>>))
              /\ hiRead' = Max(hiRead, esp + 7)
              /\ lost' = IF spi = last_spi /\ ~EspContiguous(seq, last_seq)
                         THEN EspLost(seq, last_seq) ELSE <<>>
              /\ last_spi' = Remember(last_spi, spi, lost')
              /\ last_seq' = Remember(last_seq, seq, lost')
              /\ pc' = "Done"
              /\ UNCHANGED <<offset, msg, payload_len, last_pkt_num, obs>>
    /\ UNCHANGED <<inputVars, readerVars, auxVars>>

analyze_macsec_packet ==
    /\ routine = "analyze_macsec_packet"
    /\ pc = "Entry"
    /\ \E g \in GarbageBytes, fault \in BOOLEAN :
         LET ethertype == Rd16(12, g)
             macsec    == SizeofEthernet
             pkt_num   == Rd16(macsec + 2, g)
             last      == IF ethertype # ETH_TYPE_MACSEC THEN 13
                          ELSE macsec + SizeofMacsec - 1
         IN
         IF fault
         THEN Fault(last)
         ELSE
         IF ethertype # ETH_TYPE_MACSEC
         THEN /\ msg' = "Not a MACsec packet"
              /\ pc' = "Failed"
              /\ hiRead' = Max(hiRead, 13)
              /\ UNCHANGED <<offset, headers, payload_len, trackVars>>
         ELSE /\ headers' = Append(headers,
                      Header("MACsec", macsec, <<pkt_num, Rd(macsec, g)>>))
              /\ hiRead' = Max(hiRead, macsec + SizeofMacsec - 1)
              /\ lost' = IF ~MacsecContiguous(pkt_num, last_pkt_num)
                         THEN MacsecLost(pkt_num, last_pkt_num) ELSE <<>>
              /\ last_pkt_num' = Remember(last_pkt_num, pkt_num, lost')
              /\ pc' = "Done"
              /\ UNCHANGED <<offset, msg, payload_len, last_spi, last_seq, obs>>
    /\ UNCHANGED <<inputVars, readerVars, auxVars>>

(***************************************************************************)
(* packet_parser: pp_create gives offset 0, pp_read(pp, n) returns NULL or *)
(* the slice at the old offset and advances.                               *)
(***************************************************************************)
pp_create(len) == [length |-> len, offset |-> 0]

NULL == -1

\* the end-of-buffer check refusing a read that ends exactly at the end
PpPastEnd_OffByOne(off, n, len) == off + n >= len

\* if (pp->offset + bytes_to_read > pp->length) return NULL;
PpPastEnd(off, n, len) == off + n > len

\* pp->offset = bytes_to_read;
PpAdvance_Assign(off, n) == n

\* pp->offset += bytes_to_read;
PpAdvance(off, n) == off + n

pp_read(n) ==
    /\ routine = "pp"
    /\ pp_prev' = pp.offset
    /\ pp_n' = n
    /\ IF PpPastEnd(pp.offset, n, pp.length)
       THEN /\ pp_result' = NULL
            /\ UNCHANGED pp
       ELSE /\ pp_result' = pp.offset
            /\ pp' = [pp EXCEPT !.offset = PpAdvance(pp.offset, n)]
    /\ UNCHANGED <<inputVars, decodeVars, trackVars, auxVars>>

MaxPpRead == 21      \* pp_read is called with 0..MaxPpRead bytes

\* struct ... = pp_read(pp, 14); pp_read(pp, 20); ...
PpReadHeader == \E n \in 0..MaxPpRead : pp_read(n)

\* unsigned char *payload = pp_read(pp, pp->length - pp->offset);
PpReadRest == pp_read(pp.length - pp.offset)

Finished == pc \in {"Done", "Failed"}

(***************************************************************************)
(* Specifications                                                          *)
(***************************************************************************)
Frames ==
    {MakeFrame(len, ETH_TYPE_IPv4, ihl, proto) :
        len \in 0..MaxFrameLen, ihl \in IHLs, proto \in Protocols}
    \cup {MakeFrame(len, et, 5, PROTO_TCP) :
        len \in 0..MaxFrameLen, et \in EtherTypes \ {ETH_TYPE_IPv4}}

\* the buffer with byte i overwritten by b
WithByte(buf, i, b) == [buf EXCEPT ![i + 1] = b]

\* TCP data offsets other than the 5 words the generator writes
TcpDataOffsets == {6, 15}

\* a TCP file whose data-offset nibble announces d words
MakeTcpFile(len, d) == WithByte(MakeFile(len, 5, PROTO_TCP), SizeofIPv4 + 12, d * 16)

Files ==
    {MakeFile(len, ihl, proto) :
        len \in 0..MaxFileLen, ihl \in IHLs, proto \in Protocols}
    \cup {MakeTcpFile(len, d) :
        len \in (SizeofIPv4 + 13)..MaxFileLen, d \in TcpDataOffsets}

EntryPc(r) ==
    CASE r = "parse_complete_packet" -> "LinkLayer"
      [] r = "main"                  -> "NetworkLayer"
      [] OTHER                       -> "Entry"

InitCommon ==
    /\ packet_len = Len(packet)
    /\ pc = EntryPc(routine)
    /\ offset = 0
    /\ headers = <<>>
    /\ msg = ""
    /\ hiRead = -1
    /\ payload_len = -1
    /\ last_spi = U32(0)
    /\ last_seq = U32(0)
    /\ last_pkt_num = 0
    /\ lost = <<>>
    /\ pp_result = NULL
    /\ pp_prev = 0
    /\ pp_n = -1

Init ==
    /\ host \in Hosts
    /\ \/ /\ routine \in {"parse_complete_packet", "analyze_ipsec_packet",
                          "analyze_macsec_packet"}
          /\ packet \in Frames
       \/ /\ routine = "main"
          /\ packet \in Files \cup SampleFiles(host)
    /\ pp = pp_create(0)
    /\ obs = <<>>
    /\ InitCommon
    /\ AuxIdle

Next ==
    \/ PcpLinkLayer
    \/ PcpNetworkLayer
    \/ PcpTransportLayer
    \/ FileNetworkLayer
    \/ FileTransportLayer
    \/ analyze_ipsec_packet
    \/ analyze_macsec_packet

Spec == Init /\ [][Next]_vars

InitReader ==
    /\ host = "LE"
    /\ routine = "pp"
    /\ packet \in {MakeFrame(len, ETH_TYPE_IPv4, 5, PROTO_TCP) : len \in 0..MaxPpLen}
    /\ pp = pp_create(Len(packet))
    /\ obs = <<>>
    /\ InitCommon
    /\ AuxIdle

NextReader ==
    \/ PpReadHeader
    \/ PpReadRest

SpecReader == InitReader /\ [][NextReader]_vars

(***************************************************************************)
(* A capture session: the same analyzer is called on one frame after the   *)
(* other, and its static variables live on from call to call.  A frame     *)
(* carries a flow key (the ESP SPI, the MACsec channel = source MAC) and a  *)
(* counter (ESP sequence number, MACsec packet number).                    *)
(***************************************************************************)
MaxCalls == 4        \* frames handed to the analyzer in one session

TrackedSpis    == {U32(0), U32(1), U32(2)}
TrackedSeqs    == {U32(1), U32(2), U32(3), U32(5)}
TrackedPktNums == {0, 1, 2, 3, 5, 65535}
Channels       == {170, 187}        \* source MAC aa:.. and bb:..

\* the four bytes of a 32-bit value on the wire, most significant first
Be32(v) == <<v[1] \div 256, v[1] % 256, v[2] \div 256, v[2] % 256>>

\* Ethernet + IPv4 (IHL 5, protocol 50) + ESP header (spi, seq) + 4 bytes
EspFrame(spi, seq) ==
    SubSeq(MakeFrame(SizeofEthernet + SizeofIPv4, ETH_TYPE_IPv4, 5, PROTO_IPsec_ESP),
           1, SizeofEthernet + SizeofIPv4)
    \o Be32(spi) \o Be32(seq) \o <<0, 0, 0, 0>>

\* Ethernet (source MAC ch:00:..) with ethertype 0x88E5 + MACsec header
MacsecFrame(ch, pkt_num) ==
    [MakeFrame(SizeofEthernet + SizeofMacsec, ETH_TYPE_MACSEC, 5, PROTO_TCP)
        EXCEPT ![7] = ch, ![17] = pkt_num \div 256, ![18] = pkt_num % 256]

\* what a frame is to the tracker: its flow key and its counter
Observation(k, c) == [key |-> k, counter |-> c]

\* the frames the session can hand to analyzer r, each with its observation
TrackedInputs(r) ==
    IF r = "analyze_ipsec_packet"
    THEN {<<EspFrame(spi, seq), Observation(spi, seq)>> :
              spi \in TrackedSpis, seq \in TrackedSeqs}
    ELSE {<<MacsecFrame(ch, pn), Observation(<<ch>>, U32(pn))>> :
              ch \in Channels, pn \in TrackedPktNums}

\* the capture loop calls the analyzer again on the next frame
NextFrame ==
    /\ routine \in {"analyze_ipsec_packet", "analyze_macsec_packet"}
    /\ Finished
    /\ Len(obs) < MaxCalls
    /\ \E in \in TrackedInputs(routine) :
         /\ packet' = in[1]
         /\ packet_len' = Len(in[1])
         /\ obs' = Append(obs, in[2])
    /\ pc' = "Entry"
    /\ headers' = <<>>
    /\ msg' = ""
    /\ hiRead' = -1
    /\ lost' = <<>>
    /\ UNCHANGED <<host, routine, offset, payload_len, last_spi, last_seq,
                   last_pkt_num, readerVars, auxVars>>

InitTracker ==
    /\ host \in Hosts
    /\ routine \in {"analyze_ipsec_packet", "analyze_macsec_packet"}
    /\ \E in \in TrackedInputs(routine) :
         /\ packet = in[1]
         /\ obs = <<in[2]>>
    /\ pp = pp_create(0)
    /\ InitCommon
    /\ AuxIdle

NextTracker ==
    \/ analyze_ipsec_packet
    \/ analyze_macsec_packet
    \/ NextFrame

SpecTracker == InitTracker /\ [][NextTracker]_vars


(***************************************************************************)
(* Properties                                                              *)
(***************************************************************************)
Pcp == routine = "parse_complete_packet"

\* position of the IPv4 header among the decoded headers
Ipv4Index == IF routine = "main" THEN 1 ELSE 2

\* C1: in every state of a decode pass the cursor satisfies
\* 0 <= offset <= frame.length, whatever the IHL announces.
C1_CursorWithinFrame == 0 <= offset /\ offset <= packet_len

\* C2: every byte read while decoding a frame, or while extracting its ESP /
\* MACsec counter, has an index strictly below the frame length.
C2_ReadsWithinFrame == hiRead < packet_len

\* C3: a pp_read of n bytes succeeds if and only if offset + n <= length; a read
\* ending exactly at the end succeeds, one ending a byte later returns NULL.
C3_ReadSucceedsIffFits ==
    pp_n >= 0 => ((pp_result # NULL) <=> (pp_prev + pp_n <= pp.length))

C3_Witness ==
    /\ pp_n > 0
    /\ pp_prev > 0
    /\ pp_prev + pp_n = pp.length
    /\ pp_result # NULL

\* C4: pp_read advances the offset by exactly bytes_to_read when it succeeds
\* and leaves the offset unchanged when it returns NULL.
C4_AdvanceOnlyOnSuccess ==
    [][/\ pp_result' = NULL => pp'.offset = pp.offset
       /\ pp_result' # NULL => pp'.offset = pp.offset + pp_n']_vars

C4_Witness ==
    /\ pp_result = NULL
    /\ pp_n > 0
    /\ pp_prev > 0
    /\ pp.offset = pp_prev

\* C5: for every buffer shorter than 14 bytes, the empty one included, the
\* pass stops with the error Truncated and no decoded header.
C5_ShortBufferTruncated ==
    (/\ routine \in {"parse_complete_packet", "main"}
     /\ packet_len < SizeofEthernet
     /\ pc # EntryPc(routine))
    => (pc = "Failed" /\ err = "Truncated" /\ headers = <<>>)

C5_Witness ==
    /\ Pcp
    /\ packet_len = SizeofEthernet - 1
    /\ pc = "Failed"
    /\ err = "Truncated"

\* C6: a Truncated error moves the pass to Failed in the same step without
\* touching the headers decoded so far; once Failed nothing more is decoded;
\* and every step keeps the earlier headers unchanged and in order.
C6_TruncatedStopsPass ==
    [][/\ (msg = "" /\ ErrorKind(msg') = "Truncated")
            => (pc' = "Failed" /\ headers' = headers)
       /\ pc = "Failed" => (pc' = "Failed" /\ headers' = headers /\ msg' = msg)
       /\ Len(headers') >= Len(headers)
       /\ SubSeq(headers', 1, Len(headers)) = headers]_vars

C6_Witness ==
    /\ pc = "Failed"
    /\ err = "Truncated"
    /\ Len(headers) = 2

C8_OtherEthertypesUnsupported ==
    (/\ Pcp
     /\ Finished
     /\ Len(headers) >= 1
     /\ headers[1].fields[1] \notin {ETH_TYPE_IPv4, ETH_TYPE_ARP, ETH_TYPE_MACSEC})
    => (pc = "Failed" /\ err = "UnsupportedProtocol" /\ Len(headers) = 1)

C8_Witness ==
    /\ Pcp
    /\ pc = "Failed"
    /\ Len(headers) = 1
    /\ headers[1].fields[1] = ETH_TYPE_IPv6
    /\ packet_len >= SizeofEthernet + SizeofIPv4

\* the header a protocol number is claimed to select
ClaimedNext(p) ==
    CASE p = PROTO_ICMP      -> "ICMP"
      [] p = PROTO_TCP       -> "TCP"
      [] p = PROTO_UDP       -> "UDP"
      [] p = PROTO_IPsec_ESP -> "ESP"
      [] OTHER               -> "None"

C10_IhlBelowMinimum ==
    (/\ routine \in {"parse_complete_packet", "main"}
     /\ Finished
     /\ Len(headers) >= Ipv4Index
     /\ get_ihl(headers[Ipv4Index].fields[1]) < 5)
    => (err = "InvalidLength" /\ Len(headers) = Ipv4Index)

\* C11: for every IHL in 5..15 the IPv4 header occupies IHL x 4 bytes, and the
\* header that follows is read from the offset right after those IHL x 4
\* bytes, not from a fixed 20 bytes after the start of the IPv4 header.
C11_NextHeaderAfterIhl ==
    (/\ routine \in {"parse_complete_packet", "main"}
     /\ Len(headers) > Ipv4Index
     /\ get_ihl(headers[Ipv4Index].fields[1]) \in 5..15)
    => headers[Ipv4Index + 1].at =
          headers[Ipv4Index].at + IpHeaderLen(headers[Ipv4Index].fields[1])

\* the bytes a decoded transport or security header occupies
Consumed(h) ==
    IF h.kind = "TCP" THEN tcp_get_header_length(Rd(h.at + 12, 0)) ELSE SizeofUdp

\* C12: after a transport or security header is decoded, the reported payload
\* length is the frame length minus the cursor offset, where a TCP header has
\* consumed data-offset x 4 bytes and a UDP, ICMP or ESP header 8 bytes.
C12_PayloadAfterTransportHeader ==
    (/\ routine \in {"parse_complete_packet", "main"}
     /\ pc = "Done"
     /\ Len(headers) > Ipv4Index)
    => LET h == headers[Ipv4Index + 1] IN
       payload_len = packet_len - (h.at + Consumed(h))

\* the 60-byte buffers of the end-to-end TCP case: an Ethernet frame handed to
\* parse_complete_packet, and the generator's sample file handed to main
TcpFrame60 == Pcp /\ packet = MakeFrame(60, ETH_TYPE_IPv4, 5, PROTO_TCP)

TcpSample60 == routine = "main" /\ packet = create_ipv4_tcp_packet(host)

\* the last decoded header is a TCP header to port 80 with SYN and ACK set
LastIsSynAckTo80 ==
    LET tcp == headers[Len(headers)] IN
    /\ tcp.kind = "TCP"
    /\ tcp.fields[2] = 80
    /\ HasFlag(tcp.fields[3], TCP_SYN)
    /\ HasFlag(tcp.fields[3], TCP_ACK)

UdpFrame40 == Pcp /\ packet = MakeFrame(40, ETH_TYPE_IPv4, 5, PROTO_UDP)

UdpSample40 == routine = "main" /\ packet = create_ipv4_udp_packet(host)

\* C14 as stated: the 40-byte buffer decodes to exactly 3 headers, the last a
\* UDP header whose length field is 20.
C14_Original ==
    ((UdpFrame40 \/ UdpSample40) /\ Finished)
    => /\ Len(headers) = 3
       /\ headers[3].kind = "UDP"
       /\ Len(headers[3].fields) >= 3
       /\ headers[3].fields[3] = 20

\* C14 amended: the 40-byte sample is IPv4(UDP) with no Ethernet header and
\* decodes to exactly 2 headers (IPv4, UDP) with source and destination port
\* 53 and UDP length field 20; a 40-byte buffer that starts with an Ethernet
\* header has no room for the UDP header and parse_complete_packet stops
\* after Ethernet and IPv4 with "Packet too short for UDP".
C14_FortyByteUdp ==
    /\ (UdpSample40 /\ Finished)
       => /\ pc = "Done"
          /\ Kinds(headers) = <<"IPv4", "UDP">>
          /\ headers[2].fields = <<53, 53, 20>>
          /\ payload_len = 12
    /\ (UdpFrame40 /\ Finished)
       => /\ pc = "Failed"
          /\ Kinds(headers) = <<"Ethernet", "IPv4">>
          /\ msg = "Packet too short for UDP"

C14_Witness ==
    /\ UdpSample40
    /\ host = "LE"
    /\ pc = "Done"
    /\ Len(headers) = 2
    /\ headers[2].fields[3] = 20

(***************************************************************************)
(* The sequence gap tracking of a capture session.  obs is the history of  *)
(* the frames handed in; when a call has returned, the last element of obs *)
(* is the observation it made and lost is what it reported.                *)
(***************************************************************************)
Tracking == routine \in {"analyze_ipsec_packet", "analyze_macsec_packet"}

\* a call of the analyzer has just returned
Observed == Tracking /\ pc = "Done" /\ Len(obs) >= 1

Cur == obs[Len(obs)]

Earlier == SubSeq(obs, 1, Len(obs) - 1)

SeenIn(hist, k) == \E i \in 1..Len(hist) : hist[i].key = k

\* the counter of the latest observation of key k in hist
LastIn(hist, k) ==
    hist[CHOOSE i \in 1..Len(hist) :
            /\ hist[i].key = k
            /\ \A j \in (i + 1)..Len(hist) : hist[j].key # k].counter

\* a counter below 65536 as an integer
Num(c) == c[2]

\* what the analyzer holds as the last counter
StoredLast == IF routine = "analyze_ipsec_packet" THEN last_seq ELSE U32(last_pkt_num)

\* counter_value - (last + 1) for the key of the call that has just returned
GapSize == Num(Cur.counter) - (Num(LastIn(Earlier, Cur.key)) + 1)

\* C15: the first observation of a flow key, whatever its counter value
\* (0 and values other than 1 included), stores that value as last and
\* reports no gap.
C15_FirstObservationNoGap ==
    (Observed /\ ~SeenIn(Earlier, Cur.key))
    => (lost = <<>> /\ StoredLast = Cur.counter)

\* C16: an observation on a flow key seen before reports no gap when
\* counter_value = last + 1 and otherwise a gap of size
\* counter_value - (last + 1); 1, 2, 3, 5 on one key makes the fourth call
\* report a gap of size 1.
C16_GapAfterSeenKey ==
    (Observed /\ SeenIn(Earlier, Cur.key))
    => IF GapSize = 0
       THEN lost = <<>>
       ELSE GapSize > 0 /\ lost = U32(GapSize)

\* C17: after every observation (k, c), whether or not a gap was reported,
\* the stored last value is c (and the stored key is k): the tracker never
\* keeps an older value while waiting to re-synchronize.
C17_LastIsLatest ==
    Observed
    => /\ StoredLast = Cur.counter
       /\ routine = "analyze_ipsec_packet" => last_spi = Cur.key

C17_Witness ==
    /\ Observed
    /\ Len(obs) >= 2
    /\ lost # <<>>
    /\ StoredLast = Cur.counter
    /\ StoredLast # LastIn(Earlier, Earlier[Len(Earlier)].key)

\* C18: observations 1, 2, 2 on one flow key make the third call report a gap
\* of size 0, a repeat, which no forward gap is reported as.
C18_RepeatReportedAsZero ==
    (/\ Observed
     /\ Len(obs) = 3
     /\ obs[1].key = obs[2].key
     /\ obs[2].key = obs[3].key
     /\ <<obs[1].counter, obs[2].counter, obs[3].counter>> = <<U32(1), U32(2), U32(2)>>)
    => lost = U32(0)

\* C19: an observation whose counter is lower than the last one of its flow
\* key is reported, and never as a forward gap (a positive number of lost
\* packets), for ESP sequence numbers and MACsec packet numbers alike.
C19_LowerCounterNotForward ==
    (/\ Observed
     /\ SeenIn(Earlier, Cur.key)
     /\ Num(Cur.counter) < Num(LastIn(Earlier, Cur.key)))
    => (lost # <<>> /\ lost = U32(0))

\* the observations of key k, in order
OfKey(hist, k) == SelectSeq(hist, LAMBDA o : o.key = k)

\* what analyze_ipsec_packet holds and reports after exactly the calls in hist
RECURSIVE EspAfter(_)
EspAfter(hist) ==
    IF hist = <<>>
    THEN [spi |-> U32(0), seq |-> U32(0), lost |-> <<>>]
    ELSE LET before == EspAfter(SubSeq(hist, 1, Len(hist) - 1))
             o      == hist[Len(hist)]
         IN  [spi  |-> o.key,
              seq  |-> o.counter,
              lost |-> IF o.key = before.spi /\ ~EspContiguous(o.counter, before.seq)
                       THEN EspLost(o.counter, before.seq) ELSE <<>>]

\* what analyze_macsec_packet holds and reports after exactly the calls in hist
RECURSIVE MacsecAfter(_)
MacsecAfter(hist) ==
    IF hist = <<>>
    THEN [pkt_num |-> 0, lost |-> <<>>]
    ELSE LET before == MacsecAfter(SubSeq(hist, 1, Len(hist) - 1))
             o      == hist[Len(hist)]
         IN  [pkt_num |-> Num(o.counter),
              lost    |-> IF ~MacsecContiguous(Num(o.counter), before.pkt_num)
                          THEN MacsecLost(Num(o.counter), before.pkt_num) ELSE <<>>]

\* the report of the last call had the session held only the frames in hist
ReportAfter(hist) ==
    IF routine = "analyze_ipsec_packet" THEN EspAfter(hist).lost
                                        ELSE MacsecAfter(hist).lost

\* C20: the report of an observation on flow key k depends only on the
\* observations of k: it is the report the same call gives when the
\* observations of the other flow keys are left out of the session.
C20_ReportDependsOnOwnFlow ==
    Observed => lost = ReportAfter(OfKey(obs, Cur.key))

(***************************************************************************)
(* Two decode passes that run the loss tracking of analyze_ipsec_packet at *)
(* the same time on frames of one SPI.  The function takes no lock, so its *)
(* statements interleave: the test that reads last_spi and last_seq, the   *)
(* store to last_spi and the store to last_seq.                            *)
(***************************************************************************)
Threads == {1, 2}

\* spi and seq of the frame a pass has parsed, before the tracking part
Parsed(spi, seq) == [pc |-> "check", spi |-> spi, seq |-> seq, report |-> <<>>]

\* if (spi == last_spi) { if (seq != last_seq + 1) { lost = ...; printf(...); } }
TrackCheck(t) ==
    /\ routine = "concurrent"
    /\ th[t].pc = "check"
    /\ th' = [th EXCEPT ![t].pc = "store_spi",
                        ![t].report =
                            IF th[t].spi = last_spi /\ ~EspContiguous(th[t].seq, last_seq)
                            THEN EspLost(th[t].seq, last_seq) ELSE <<>>]
    /\ UNCHANGED <<coreVars, bitVars, ringVars, lossVars, poolVars>>

\* last_spi = spi;
TrackStoreSpi(t) ==
    /\ routine = "concurrent"
    /\ th[t].pc = "store_spi"
    /\ last_spi' = Remember(last_spi, th[t].spi, th[t].report)
    /\ th' = [th EXCEPT ![t].pc = "store_seq"]
    /\ UNCHANGED <<inputVars, decodeVars, last_seq, last_pkt_num, lost, obs, readerVars>>
    /\ UNCHANGED <<bitVars, ringVars, lossVars, poolVars>>

\* last_seq = seq;
TrackStoreSeq(t) ==
    /\ routine = "concurrent"
    /\ th[t].pc = "store_seq"
    /\ last_seq' = Remember(last_seq, th[t].seq, th[t].report)
    /\ th' = [th EXCEPT ![t].pc = "done"]
    /\ UNCHANGED <<inputVars, decodeVars, last_spi, last_pkt_num, lost, obs, readerVars>>
    /\ UNCHANGED <<bitVars, ringVars, lossVars, poolVars>>

\* no buffer is being decoded by the passes of the other specifications
DecodeIdle ==
    /\ host = "LE"
    /\ packet = <<>>
    /\ pp = pp_create(0)
    /\ obs = <<>>
    /\ InitCommon

InitConcurrent ==
    /\ routine = "concurrent"
    /\ DecodeIdle
    /\ BitIdle /\ RingIdle /\ LossIdle /\ PoolIdle
    /\ \E spi \in TrackedSpis :
         th \in [Threads -> {Parsed(spi, seq) : seq \in TrackedSeqs}]

NextConcurrent ==
    \/ \E t \in Threads : TrackCheck(t)
    \/ \E t \in Threads : TrackStoreSpi(t)
    \/ \E t \in Threads : TrackStoreSeq(t)

SpecConcurrent == InitConcurrent /\ [][NextConcurrent]_vars

AllReturned == routine = "concurrent" /\ \A t \in Threads : th[t].pc = "done"

\* the observation pass t makes
Ob(t) == Observation(th[t].spi, th[t].seq)

\* the reports and the stored state are those of call a followed by call b
SequentialOutcome(a, b) ==
    /\ th[a].report = EspAfter(<<Ob(a)>>).lost
    /\ th[b].report = EspAfter(<<Ob(a), Ob(b)>>).lost
    /\ last_spi = th[b].spi
    /\ last_seq = th[b].seq

\* C21: two observations of the same flow key made by concurrent passes are
\* never interleaved: the stored last value and both reports are those of one
\* of the two sequential orders of the calls.
C21_ConcurrentCallsSerialized ==
    AllReturned => (SequentialOutcome(1, 2) \/ SequentialOutcome(2, 1))

(***************************************************************************)
(* The bit-field helpers: get_ip_version, get_ihl, get_tcp_data_offset of  *)
(* the header parser, extract_field and set_field of the data converter.   *)
(* A uint32_t is the pair <<high 16 bits, low 16 bits>>.                   *)
(***************************************************************************)
WordBits == 32      \* the width of uint32_t

RECURSIVE BitAnd(_, _)
\* a & b
BitAnd(a, b) ==
    IF a = 0 \/ b = 0 THEN 0
    ELSE (a % 2) * (b % 2) + 2 * BitAnd(a \div 2, b \div 2)

\* a | b
BitOr(a, b) == a + b - BitAnd(a, b)

U32And(a, b) == <<BitAnd(a[1], b[1]), BitAnd(a[2], b[2])>>

U32Or(a, b) == <<BitOr(a[1], b[1]), BitOr(a[2], b[2])>>

\* ~a
U32Not(a) == <<65535 - a[1], 65535 - a[2]>>

\* v << n for n in 0..31
U32Shl(v, n) ==
    IF n < 16
    THEN <<((v[1] * 2^n) % 65536) + ((v[2] * 2^n) \div 65536), (v[2] * 2^n) % 65536>>
    ELSE <<(v[2] * 2^(n - 16)) % 65536, 0>>

\* v >> n for n in 0..31
U32Shr(v, n) ==
    IF n < 16
    THEN <<v[1] \div 2^n, (v[2] \div 2^n) + ((v[1] % 2^n) * 2^(16 - n))>>
    ELSE <<0, v[1] \div 2^(n - 16)>>

\* 1U << 32 is undefined: the hardware shifts the bit out, or takes the
\* count modulo 32 and leaves the 1 in place
WideShifts == {U32(0), U32(1)}

\* 1U << num_bits, g being what a shift by the full width produces
OneShl(num_bits, g) == IF num_bits < WordBits THEN U32Shl(U32(1), num_bits) ELSE g

\* uint32_t mask = (1U << num_bits) - 1;
FieldMask(num_bits, g) == U32Sub(OneShl(num_bits, g), U32(1))

\* uint32_t extract_field(uint32_t value, int start_bit, int num_bits)
extract_field(value, start_bit, num_bits, g) ==
    U32And(U32Shr(value, start_bit), FieldMask(num_bits, g))

\* void set_field(uint32_t *value, int start_bit, int num_bits, uint32_t field_value)
set_field(value, start_bit, num_bits, field_value, g) ==
    LET mask == FieldMask(num_bits, g)
    IN  U32Or(U32And(value, U32Not(U32Shl(mask, start_bit))),
              U32Shl(U32And(field_value, mask), start_bit))

\* the containers and field values the helpers are called on
BitValues == {U32(0), U32(69), U32(80), U32(165), <<65535, 65535>>,
              <<4660, 22136>>, <<32768, 1>>, <<42405, 23130>>}

FieldValues == {U32(0), U32(5), <<65535, 65535>>, <<4660, 43981>>}

\* a caller about to use the helpers on value, bits start_bit..start_bit+num_bits-1
BitCall(value, start_bit, num_bits, field_value) ==
    [fn |-> <<>>, value |-> value, start_bit |-> start_bit, num_bits |-> num_bits,
     field_value |-> field_value, before |-> value, result |-> <<>>]

\* the value fits an unsigned char
IsByte(v) == v[1] = 0 /\ v[2] < 256

BfReturn(fn, r) ==
    /\ bf' = [bf EXCEPT !.fn = Append(bf.fn, fn), !.result = r]
    /\ UNCHANGED <<coreVars, concVars, ringVars, lossVars, poolVars>>

BfGetIpVersion ==
    /\ routine = "bits" /\ bf.fn = <<>> /\ IsByte(bf.value)
    /\ BfReturn("get_ip_version", U32(get_ip_version(bf.value[2])))

BfGetIhl ==
    /\ routine = "bits" /\ bf.fn = <<>> /\ IsByte(bf.value)
    /\ BfReturn("get_ihl", U32(get_ihl(bf.value[2])))

BfGetTcpDataOffset ==
    /\ routine = "bits" /\ bf.fn = <<>> /\ IsByte(bf.value)
    /\ BfReturn("get_tcp_data_offset", U32(get_tcp_data_offset(bf.value[2])))

\* extract_field(value, start_bit, num_bits), first or after a set_field
BfExtractField ==
    /\ routine = "bits" /\ bf.fn \in {<<>>, <<"set_field">>}
    /\ \E g \in WideShifts :
         BfReturn("extract_field", extract_field(bf.value, bf.start_bit, bf.num_bits, g))

\* set_field(&value, start_bit, num_bits, field_value)
BfSetField ==
    /\ routine = "bits" /\ bf.fn = <<>>
    /\ \E g \in WideShifts :
         bf' = [bf EXCEPT !.fn = <<"set_field">>,
                          !.value = set_field(bf.value, bf.start_bit, bf.num_bits,
                                              bf.field_value, g)]
    /\ UNCHANGED <<coreVars, concVars, ringVars, lossVars, poolVars>>

InitBits ==
    /\ routine = "bits"
    /\ DecodeIdle
    /\ ConcIdle /\ RingIdle /\ LossIdle /\ PoolIdle
    /\ \E value \in BitValues, field_value \in FieldValues,
          start_bit \in 0..(WordBits - 1), num_bits \in 1..WordBits :
         /\ start_bit + num_bits <= WordBits
         /\ bf = BitCall(value, start_bit, num_bits, field_value)

NextBits ==
    \/ BfGetIpVersion
    \/ BfGetIhl
    \/ BfGetTcpDataOffset
    \/ BfExtractField
    \/ BfSetField

SpecBits == InitBits /\ [][NextBits]_vars

\* bit i of the byte or 16-bit value x
Bit(x, i) == (x \div 2^i) % 2

\* the 4-bit number made of bits lo..lo+3 of byte x
Nibble(x, lo) == Bit(x, lo) + 2 * Bit(x, lo + 1) + 4 * Bit(x, lo + 2) + 8 * Bit(x, lo + 3)

Returned(fn) == routine = "bits" /\ bf.fn = <<fn>>

\* C22: in a byte that packs two 4-bit fields the first field is bits 4..7 and
\* the second bits 0..3: get_ip_version and get_tcp_data_offset return bits
\* 4..7, get_ihl returns bits 0..3, and extract_field agrees with them on a
\* byte (start 4 width 4, start 0 width 4); on 0x45 the results are 4 and 5.
C22_FirstFieldInHighNibble ==
    /\ Returned("get_ip_version") => bf.result = U32(Nibble(bf.value[2], 4))
    /\ Returned("get_tcp_data_offset") => bf.result = U32(Nibble(bf.value[2], 4))
    /\ Returned("get_ihl") => bf.result = U32(Nibble(bf.value[2], 0))
    /\ (Returned("extract_field") /\ IsByte(bf.value) /\ bf.num_bits = 4) =>
          /\ bf.start_bit = 4 => bf.result = U32(Nibble(bf.value[2], 4))
          /\ bf.start_bit = 0 => bf.result = U32(Nibble(bf.value[2], 0))
          /\ (bf.value = U32(69) /\ bf.start_bit = 4) => bf.result = U32(4)
          /\ (bf.value = U32(69) /\ bf.start_bit = 0) => bf.result = U32(5)

C22_Witness ==
    /\ Returned("get_tcp_data_offset")
    /\ bf.value = U32(80)
    /\ bf.result = U32(5)

(***************************************************************************)
(* Host byte order.  What the wire bytes of a field mean does not depend   *)
(* on the machine: the most significant byte comes first, and an address   *)
(* is its four bytes in wire order.                                        *)
(***************************************************************************)
Wire16(i) == 256 * packet[i + 1] + packet[i + 2]

Wire32(i) == <<Wire16(i), Wire16(i + 2)>>

WireAddr(i) == <<packet[i + 1], packet[i + 2], packet[i + 3], packet[i + 4]>>

\* sizeof the struct a header of this kind is read through
SizeofHeader(kind) ==
    CASE kind = "Ethernet" -> SizeofEthernet
      [] kind = "IPv4"     -> SizeofIPv4
      [] kind = "TCP"      -> SizeofTcp
      [] kind = "UDP"      -> SizeofUdp
      [] kind = "MACsec"   -> SizeofMacsec
      [] OTHER             -> SizeofEsp

\* the struct of header h lies inside the buffer
Inside(h) == h.at + SizeofHeader(h.kind) <= Len(packet)

\* the multi-byte fields of h carry the values of the wire bytes
WireValues(h) ==
    CASE h.kind = "Ethernet" -> h.fields[1] = Wire16(h.at + 12)
      [] h.kind = "IPv4"     -> /\ h.fields[4] = WireAddr(h.at + 12)
                                /\ h.fields[5] = WireAddr(h.at + 16)
      [] h.kind = "TCP"      -> /\ h.fields[1] = Wire16(h.at)
                                /\ h.fields[2] = Wire16(h.at + 2)
      [] h.kind = "UDP"      -> /\ h.fields[1] = Wire16(h.at)
                                /\ h.fields[2] = Wire16(h.at + 2)
                                /\ Len(h.fields) >= 3 => h.fields[3] = Wire16(h.at + 4)
      [] h.kind = "MACsec"   -> h.fields[1] = Wire16(h.at + 2)
      [] OTHER               -> /\ h.fields[1] = Wire32(h.at)
                                /\ h.fields[2] = Wire32(h.at + 4)

\* C23: decoded field values do not depend on the host byte order: on a
\* little-endian and on a big-endian host every multi-byte field of a decoded
\* header is the value of its wire bytes, and an IPv4 address is rendered with
\* its first wire byte first (192.168.1.100 for c0 a8 01 64).
C23_HostIndependent ==
    \A i \in 1..Len(headers) : Inside(headers[i]) => WireValues(headers[i])

(***************************************************************************)
(* Termination.  A pass is sequential code with no suspension point: the   *)
(* thread that calls it keeps running it, so a step that can be taken is   *)
(* taken.                                                                  *)
(***************************************************************************)
SpecLive == Init /\ [][Next]_vars /\ WF_vars(Next)

\* a pass of one of the two dispatchers, parse_complete_packet or main
Dispatching == routine \in {"parse_complete_packet", "main"}

\* C24: for every input buffer, well-formed or malformed, a pass of the
\* dispatcher ends in Done or in Failed: it neither aborts nor runs forever.
C24_DecodePassTerminates == Dispatching ~> Finished

C24_Witness ==
    /\ Pcp
    /\ packet_len = SizeofEthernet + SizeofIPv4 - 1
    /\ pc = "Failed"
    /\ err = "Truncated"

(***************************************************************************)
(* What the bit-field helpers are to compute, bit by bit.                  *)
(***************************************************************************)
\* bit i, 0..31, of the 32-bit value v
Bit32(v, i) == IF i < 16 THEN Bit(v[2], i) ELSE Bit(v[1], i - 16)

RECURSIVE FieldBits(_, _, _, _)
\* the number whose bits 0.. are bits start+from .. start+to-1 of v
FieldBits(v, start, from, to) ==
    IF to <= from THEN 0
    ELSE Bit32(v, start + from) + 2 * FieldBits(v, start, from + 1, to)

\* (v >> start) mod 2^width as a 32-bit value
FieldOf(v, start, width) ==
    <<FieldBits(v, start, 16, width), FieldBits(v, start, 0, IF width < 16 THEN width ELSE 16)>>

\* C25: for every 32-bit container, every width in 1..32 and every offset with
\* offset + width <= 32, extract_field returns (container >> offset) mod
\* 2^width, the full width 32 included.
C25_ExtractShiftAndMask ==
    Returned("extract_field")
    => bf.result = FieldOf(bf.value, bf.start_bit, bf.num_bits)

\* set_field has returned, and perhaps an extract_field after it
AfterSetField == routine = "bits" /\ Len(bf.fn) >= 1 /\ bf.fn[1] = "set_field"

\* C26: set_field(v, start, width, f) changes only bits start..start+width-1
\* of v, and an extract_field(v, start, width) made afterwards returns
\* f mod 2^width, for every start and width with start + width <= 32.
C26_SetThenExtract ==
    /\ AfterSetField
       => \A i \in 0..(WordBits - 1) :
             (i < bf.start_bit \/ i >= bf.start_bit + bf.num_bits)
             => Bit32(bf.value, i) = Bit32(bf.before, i)
    /\ (AfterSetField /\ Len(bf.fn) = 2)
       => bf.result = FieldOf(bf.field_value, 0, bf.num_bits)

(***************************************************************************)
(* struct ring_buffer: ring_buffer_create, ring_buffer_write and           *)
(* ring_buffer_read.  A packet is a sequence of bytes, its len the length  *)
(* of the sequence; slot i of the C arrays is element i + 1.               *)
(***************************************************************************)
MaxCapacity  == 3      \* ring buffers of 1..MaxCapacity slots
MaxRingCalls == 6      \* calls of ring_buffer_write / ring_buffer_read in a run

\* the packets handed to ring_buffer_write
RingPackets == {<<1>>, <<2, 3>>, <<4, 5, 6>>}

\* struct ring_buffer *ring_buffer_create(int capacity)
ring_buffer_create(capacity) ==
    [capacity |-> capacity, write_index |-> 0, read_index |-> 0, count |-> 0,
     packets |-> [i \in 1..capacity |-> <<>>],
     packet_lengths |-> [i \in 1..capacity |-> 0]]

\* memcpy(dst, src, n): the first n bytes of dst are replaced, the rest stays
memcpy(dst, src, n) == SubSeq(src, 1, n) \o SubSeq(dst, n + 1, Len(dst))

\* an index that does not move
RingNext_Stay(index, capacity) == index

\* (index + 1) % rb->capacity
RingNext(index, capacity) == (index + 1) % capacity

\* int ring_buffer_write(struct ring_buffer *rb, unsigned char *packet, int len)
ring_buffer_write ==
    /\ routine = "ring_buffer"
    /\ rb_log.calls < MaxRingCalls
    /\ \E pkt \in RingPackets :
         LET len == Len(pkt) IN
         IF rb.count >= rb.capacity
         THEN /\ rb_log' = [rb_log EXCEPT !.calls = @ + 1, !.ret = -1]
              /\ UNCHANGED rb
         ELSE /\ rb' = [rb EXCEPT
                    !.packets[rb.write_index + 1] = memcpy(@, pkt, len),
                    !.packet_lengths[rb.write_index + 1] = len,
                    !.write_index = RingNext(rb.write_index, rb.capacity),
                    !.count = @ + 1]
              /\ rb_log' = [rb_log EXCEPT !.calls = @ + 1, !.ret = 0,
                                          !.written = Append(@, <<pkt, len>>)]
    /\ UNCHANGED <<coreVars, concVars, bitVars, lossVars, poolVars>>

\* int ring_buffer_read(struct ring_buffer *rb, unsigned char *out_packet, int *out_len)
ring_buffer_read ==
    /\ routine = "ring_buffer"
    /\ rb_log.calls < MaxRingCalls
    /\ IF rb.count = 0
       THEN /\ rb_log' = [rb_log EXCEPT !.calls = @ + 1, !.ret = -1]
            /\ UNCHANGED rb
       ELSE LET out_len    == rb.packet_lengths[rb.read_index + 1]
                out_packet == memcpy(<<>>, rb.packets[rb.read_index + 1], out_len)
            IN
            /\ rb' = [rb EXCEPT
                   !.read_index = RingNext(rb.read_index, rb.capacity),
                   !.count = @ - 1]
            /\ rb_log' = [rb_log EXCEPT !.calls = @ + 1, !.ret = 0,
                                        !.read = Append(@, <<out_packet, out_len>>)]
    /\ UNCHANGED <<coreVars, concVars, bitVars, lossVars, poolVars>>

InitRing ==
    /\ routine = "ring_buffer"
    /\ DecodeIdle
    /\ ConcIdle /\ BitIdle /\ LossIdle /\ PoolIdle
    /\ \E capacity \in 1..MaxCapacity : rb = ring_buffer_create(capacity)
    /\ rb_log = [calls |-> 0, ret |-> 0, written |-> <<>>, read |-> <<>>]

NextRing ==
    \/ ring_buffer_write
    \/ ring_buffer_read

SpecRing == InitRing /\ [][NextRing]_vars

\* C27: for every sequence of ring_buffer_write and ring_buffer_read calls on
\* a ring buffer of any capacity >= 1, the packets the successful reads return
\* are the packets of the successful writes in the same order, each with the
\* length stored at its write, also after the indices have wrapped around.
C27_RingIsFifo ==
    routine = "ring_buffer"
    => /\ Len(rb_log.read) <= Len(rb_log.written)
       /\ rb_log.read = SubSeq(rb_log.written, 1, Len(rb_log.read))
       /\ rb.count = Len(rb_log.written) - Len(rb_log.read)

\* a packet written after the write index wrapped has been read back
C27_Witness ==
    /\ routine = "ring_buffer"
    /\ rb.capacity = 2
    /\ Len(rb_log.written) = 3
    /\ Len(rb_log.read) = 3
    /\ rb_log.read[3] = <<<<1>>, 1>>
    /\ rb_log.read[1] = <<<<4, 5, 6>>, 3>>

(***************************************************************************)
(* The linked list of seen ESP packets: track_ipsec_packet pushes a node   *)
(* at the head of seen_packets, detect_losses walks the list from the head *)
(* and prints a pair "Expected, Got" for every step that is not +1.        *)
(***************************************************************************)
MaxSeen == 3       \* packets tracked in a run

SeenSpis == {1, 2}

SeenSeqs == 1..MaxSeen

\* node->spi = spi; node->sequence_number = seq; node->next = seen_packets;
Node(spi, seq) == [spi |-> spi, sequence_number |-> seq]

RECURSIVE Walk(_, _)
\* the body of the for loop of detect_losses on the list p; prev is the
\* local unsigned int last_seq
Walk(p, prev) ==
    IF p = <<>> THEN <<>>
    ELSE (IF Head(p).sequence_number # prev + 1
          THEN <<<<prev + 1, Head(p).sequence_number>>>> ELSE <<>>)
         \o Walk(Tail(p), Head(p).sequence_number)

\* void track_ipsec_packet(unsigned int spi, unsigned int seq)
track_ipsec_packet ==
    /\ routine = "detect_losses"
    /\ Len(seen_packets) < MaxSeen
    /\ \E spi \in SeenSpis, seq \in SeenSeqs :
         /\ seen_packets' = <<Node(spi, seq)>> \o seen_packets
         /\ loss_log' = [called |-> FALSE, reports |-> <<>>,
                         arrived |-> Append(loss_log.arrived, seq)]
    /\ UNCHANGED <<coreVars, concVars, bitVars, ringVars, poolVars>>

\* void detect_losses()
detect_losses ==
    /\ routine = "detect_losses"
    /\ ~loss_log.called
    /\ loss_log' = [loss_log EXCEPT !.called = TRUE, !.reports = Walk(seen_packets, 0)]
    /\ UNCHANGED <<seen_packets, coreVars, concVars, bitVars, ringVars, poolVars>>

InitLoss ==
    /\ routine = "detect_losses"
    /\ DecodeIdle
    /\ ConcIdle /\ BitIdle /\ RingIdle /\ PoolIdle
    /\ seen_packets = <<>>
    /\ loss_log = [called |-> FALSE, reports |-> <<>>, arrived |-> <<>>]

NextLoss ==
    \/ track_ipsec_packet
    \/ detect_losses

SpecLoss == InitLoss /\ [][NextLoss]_vars

\* the packets arrived with the sequence numbers 1, 2, ..., n in this order
ArrivedInOrder ==
    /\ Len(loss_log.arrived) >= 1
    /\ \A i \in 1..Len(loss_log.arrived) : loss_log.arrived[i] = i

\* C28: after track_ipsec_packet has been called with the consecutive sequence
\* numbers 1, 2, ..., n in arrival order, detect_losses reports no packet loss.
C28_ConsecutiveNoLoss ==
    (routine = "detect_losses" /\ loss_log.called /\ ArrivedInOrder)
    => loss_log.reports = <<>>

(***************************************************************************)
(* struct packet_pool: pool_create, pool_get_buffer, pool_return_buffer.   *)
(* A buffer is named by its index in pool->buffers; element i of the C     *)
(* array available_indices is element i + 1 here.                          *)
(***************************************************************************)
PACKET_POOL_SIZE == 3     \* buffers in the pool of the model (1000 in the source)
MaxPoolCalls     == 7     \* calls of pool_get_buffer / pool_return_buffer in a run

Buffers == 0..(PACKET_POOL_SIZE - 1)

\* struct packet_pool *pool_create()
pool_create ==
    [available_count |-> PACKET_POOL_SIZE,
     available_indices |-> [i \in 1..PACKET_POOL_SIZE |-> i - 1]]

\* unsigned char *pool_get_buffer(struct packet_pool *pool)
pool_get_buffer ==
    /\ routine = "packet_pool"
    /\ held.calls < MaxPoolCalls
    /\ IF pool.available_count = 0
       THEN /\ held' = [held EXCEPT !.calls = @ + 1, !.got = NULL]
            /\ UNCHANGED pool
       ELSE LET idx == pool.available_indices[pool.available_count] IN
            /\ pool' = [pool EXCEPT !.available_count = @ - 1]
            /\ held' = [held EXCEPT !.calls = @ + 1, !.got = idx,
                                    !.holders[idx] = @ + 1,
                                    !.known = @ \cup {idx}]
    /\ UNCHANGED <<coreVars, concVars, bitVars, ringVars, lossVars>>

\* void pool_return_buffer(struct packet_pool *pool, unsigned char *buffer),
\* called with a buffer the caller once got from the pool
pool_return_buffer ==
    /\ routine = "packet_pool"
    /\ held.calls < MaxPoolCalls
    /\ \E buffer \in held.known :
         /\ IF pool.available_count < PACKET_POOL_SIZE
            THEN pool' = [pool EXCEPT
                     !.available_indices[pool.available_count + 1] = buffer,
                     !.available_count = @ + 1]
            ELSE UNCHANGED pool
         /\ held' = [held EXCEPT !.calls = @ + 1,
                                 !.holders[buffer] = IF @ > 0 THEN @ - 1 ELSE 0]
    /\ UNCHANGED <<coreVars, concVars, bitVars, ringVars, lossVars>>

InitPool ==
    /\ routine = "packet_pool"
    /\ DecodeIdle
    /\ ConcIdle /\ BitIdle /\ RingIdle /\ LossIdle
    /\ pool = pool_create
    /\ held = [calls |-> 0, got |-> NULL, known |-> {},
               holders |-> [b \in Buffers |-> 0]]

NextPool ==
    \/ pool_get_buffer
    \/ pool_return_buffer

SpecPool == InitPool /\ [][NextPool]_vars

\* C29: for every sequence of pool_get_buffer and pool_return_buffer calls,
\* returning the same buffer twice included, pool_get_buffer never hands out a
\* buffer that an earlier caller still holds: no buffer has two holders.
C29_NoBufferHandedOutTwice ==
    routine = "packet_pool" => \A b \in Buffers : held.holders[b] <= 1

\* a MACsec frame with packet number 0 analysed directly after one with 65535
AfterLastPacketNumber ==
    /\ routine = "analyze_macsec_packet"
    /\ Observed
    /\ Len(obs) >= 2
    /\ obs[Len(obs) - 1].counter = U32(65535)
    /\ Cur.counter = U32(0)

\* C30: analyze_macsec_packet computes the successor of the stored 16-bit
\* packet number without wrapping to 16 bits: packet number 0 directly after
\* 65535 is reported as packet loss (0 - 65535 - 1 as an unsigned int) and is
\* not taken as the contiguous successor.
C30_WrapReportedAsLoss ==
    AfterLastPacketNumber => (lost # <<>> /\ lost = U32OfInt(0 - 65536))

C30_Witness ==
    /\ AfterLastPacketNumber
    /\ lost = <<65535, 0>>
    /\ last_pkt_num = 0

====
